---- MODULE Spec2Model ----
(***************************************************************************)
(* The population-generation cycle of radiate_legacy's engine:            *)
(* Population (src/radiate_legacy/src/engine/population.rs) with its       *)
(* Config and Stagnant records, over the Genome / Problem capabilities of  *)
(* src/radiate_legacy/src/engine/mod.rs.                                   *)
(*                                                                         *)
(* Numbers.  An f32 fitness score is a small natural number (0 is 0.0,     *)
(* 1 is 1.0); scores are only compared, never computed with.  An f32       *)
(* distance is an integer count of hundredths (10 is 0.1, 300 is 3.0), so  *)
(* that the 0.1 step, the 0.2 test and the 0.1 floor of adjust_distance    *)
(* are exact; f32 rounding of the repeated +-0.1 is not modelled.          *)
(*                                                                         *)
(* Generation, Container, Niche and Genocide are declared by engine/mod.rs *)
(* (pub mod generation, niche, genocide) but their files are absent from   *)
(* the source tree: their operations are modelled from the                 *)
(* specification's sections 4.2-4.6.                                       *)
(***************************************************************************)
EXTENDS Integers, Sequences, FiniteSets, TLC

\* ------------------------------------------------------------------ bounds

\* Largest population size handed to size(n).
MaxSize == 2
\* Largest fitness a Problem returns.
MaxScore == 1
\* Largest target_stagnation handed to stagnation(n, cleaners).
MaxTarget == 2
\* Number of train calls a behaviour makes (directly or inside run).
MaxCycles == 4
\* Number of train calls a behaviour of the distance auto-tune scenario makes.
TuneCycles == 30
\* Largest distance (in hundredths) adjust_distance is called on by itself.
MaxDistance == 45
\* The most negative population size handed to size(n) is -MaxNegative.
MaxNegative == 2

Scores == 0..MaxScore
\* The genomes (the opaque user type T): two of them, told apart by
\* Genome::distance and by the Problems that score them differently.
Genomes == {1, 2}

\* Option::None, and the state of a result not yet there.
None == [none |-> TRUE]

\* ------------------------------------------------- capabilities (mod.rs)

\* Genome::distance: genomes are points on a line, 1.0 apart per index step.
DistanceUnit == 100
Distance(one, two) ==
    (IF one >= two THEN one - two ELSE two - one) * DistanceUnit

\* Problem: solve(&self, member) -> f32, a read-only map from genome to
\* fitness.  The constant problems and the one that scores a genome by its
\* index.
Problems ==
    { [g \in Genomes |-> c] : c \in Scores } \cup { [g \in Genomes |-> g - 1] }

\* Problem::empty(): the default problem scores everything 0.0.
EmptyProblem == [g \in Genomes |-> 0]

\* ------------------------------------------------ Config, Stagnant (code)

\* Config::new()
ConfigNew ==
    [inbreed_rate |-> 0, crossover_rate |-> 0, distance |-> 0, species_target |-> 0]

\* Stagnant::new(target_stagnation, cleaners)
StagnantNew(target_stagnation, cleaners) ==
    [target_stagnation |-> target_stagnation,
     current_stagnation |-> 0,
     previous_top_score |-> 0,
     cleaners |-> cleaners]

\* The Config handed to configure: distance 1.1 with two target niches, a
\* threshold one step above the distance between two different genomes
\* (Config::new() has distance 0.0 and no target niche).
Configs ==
    { [inbreed_rate |-> 0, crossover_rate |-> 50, distance |-> 110, species_target |-> 2] }

\* ------------------------------------- Container, Generation (spec 4.2, 4.6)

\* Container: {genome, fitness = 0, species = none}; species 0 is none.
Container(g) == [genome |-> g, fitness_score |-> 0, species |-> 0]

\* The selection policies (spec 4.5).
SurvivalCriteria == {"Fittest", "TopN"}
ParentalCriteria == {"BiasedRandom", "BestInSpecies", "UniformRandom"}

\* A Generation: members, species (the list of the niches' representative
\* genomes) and its two selection policies.
Generation(members, species, survival, parental) ==
    [members |-> members, species |-> species,
     survival_criteria |-> survival, parental_criteria |-> parental]

\* Generation::new(): no members, no species.
GenerationNew == Generation(<< >>, << >>, "Fittest", "BiasedRandom")

\* Generation::optimize: every container's fitness_score becomes solve(genome).
Optimize(members, problem) ==
    [i \in 1..Len(members) |->
        [members[i] EXCEPT !.fitness_score = problem[members[i].genome]]]

\* Generation::best_member: the maximum fitness_score, ties to the lower
\* index; none iff there are no members.
BestMember(members) ==
    IF Len(members) = 0 THEN None
    ELSE LET best == CHOOSE i \in 1..Len(members) :
                        /\ \A j \in 1..Len(members) :
                              members[j].fitness_score <= members[i].fitness_score
                        /\ \A j \in 1..(i - 1) :
                              members[j].fitness_score < members[i].fitness_score
         IN [score |-> members[best].fitness_score, genome |-> members[best].genome]

\* One member's niche under speciate: the first niche whose representative
\* accepts it (distance < threshold), else a new niche founded by it.
RECURSIVE SpeciateFrom(_, _, _, _)
SpeciateFrom(members, i, reps, threshold) ==
    IF i > Len(members) THEN [members |-> members, species |-> reps]
    ELSE LET g == members[i].genome
             accepting == { j \in 1..Len(reps) : Distance(g, reps[j]) < threshold }
             niche == IF accepting = {} THEN Len(reps) + 1
                      ELSE CHOOSE j \in accepting : \A k \in accepting : j <= k
             reps2 == IF accepting = {} THEN Append(reps, g) ELSE reps
         IN SpeciateFrom([members EXCEPT ![i].species = niche], i + 1, reps2, threshold)

\* Generation::speciate: assign in index order starting from the carried
\* niche list, then drop the niches left without members and renumber.
Speciate(gen, threshold) ==
    LET assigned == SpeciateFrom(gen.members, 1, gen.species, threshold)
        used == { j \in 1..Len(assigned.species) :
                    \E i \in 1..Len(assigned.members) : assigned.members[i].species = j }
        rank(j) == Cardinality({ k \in used : k <= j })
        nth(n) == CHOOSE j \in used : rank(j) = n
    IN [gen EXCEPT
          !.members = [i \in 1..Len(assigned.members) |->
                          [assigned.members[i] EXCEPT !.species = rank(@)]],
          !.species = [n \in 1..Cardinality(used) |-> assigned.species[nth(n)]]]

\* Generation::create_next_generation: none iff the input generation has no
\* members; else exactly `size` members (survivors and children, whose
\* genomes `children` lists; a carried survivor's score and niche are
\* rewritten by the next optimize and speciate before anything reads them),
\* the niche list carried with its representatives, and the generation's
\* own selection policies.
CreateNextGeneration(gen, pop_size, children) ==
    IF Len(gen.members) = 0 THEN None
    ELSE [gen EXCEPT !.members = [i \in 1..pop_size |-> Container(children[i])]]

\* ------------------------------------------------------ Genocide (spec 4.4)

KillWorst(percent) == [kind |-> "KillWorst", percent |-> percent]

\* The member lists without the worst member: lowest fitness, ties to the
\* higher index.
WithoutWorst(members) ==
    LET worst == CHOOSE i \in 1..Len(members) :
                    /\ \A j \in 1..Len(members) :
                          members[i].fitness_score <= members[j].fitness_score
                    /\ \A j \in (i + 1)..Len(members) :
                          members[i].fitness_score < members[j].fitness_score
    IN [k \in 1..(Len(members) - 1) |-> IF k < worst THEN members[k] ELSE members[k + 1]]

RECURSIVE RemoveWorst(_, _)
RemoveWorst(members, n) ==
    IF n = 0 \/ Len(members) = 0 THEN members
    ELSE RemoveWorst(WithoutWorst(members), n - 1)

\* Genocide::kill: KillWorst(fraction) removes the bottom fraction of the
\* members by fitness (the count rounds down).
Kill(cleaner, gen) ==
    [gen EXCEPT !.members = RemoveWorst(@, (Len(@) * cleaner.percent) \div 100)]

\* The cleaner lists handed to stagnation(n, cleaners).
CleanerLists ==
    { << KillWorst(50) >>, << KillWorst(50), KillWorst(100) >> }

\* -------------------------------------------------- Population (population.rs)

\* adjust_distance's numbers: the 0.1 step, the 0.2 test, the 0.1 floor.
DistanceStep == 10
DistanceTest == 20
DistanceFloor == 10

\* Mutant of AdjustDistance: the floor is left out.
AdjustDistanceNoFloor(cfg, n_species) ==
    [cfg EXCEPT !.distance = IF n_species < cfg.species_target THEN @ - DistanceStep
                             ELSE IF n_species > cfg.species_target THEN @ + DistanceStep
                             ELSE @]

\* Mutant of AdjustDistance: the two steps swapped, the threshold growing
\* when there are fewer niches than the target.
AdjustDistanceSwapped(cfg, n_species) ==
    LET moved == IF n_species < cfg.species_target THEN cfg.distance + DistanceStep
                 ELSE IF n_species > cfg.species_target THEN cfg.distance - DistanceStep
                 ELSE cfg.distance
    IN [cfg EXCEPT !.distance = IF moved < DistanceTest THEN DistanceFloor ELSE moved]

\* Population::adjust_distance, on the config and the niche count it reads.
AdjustDistance(cfg, n_species) ==
    LET moved == IF n_species < cfg.species_target THEN cfg.distance - DistanceStep
                 ELSE IF n_species > cfg.species_target THEN cfg.distance + DistanceStep
                 ELSE cfg.distance
    IN [cfg EXCEPT !.distance = IF moved < DistanceTest THEN DistanceFloor ELSE moved]

\* Mutant of ApplyCleaners: the loop leaves after the first cleaner.
ApplyCleanersHeadOnly(cleaners, gen) ==
    IF cleaners = << >> THEN gen ELSE Kill(Head(cleaners), gen)

\* The cleaners applied one after the other, each to the generation the
\* earlier ones left.
RECURSIVE ApplyCleaners(_, _)
ApplyCleaners(cleaners, gen) ==
    IF cleaners = << >> THEN gen
    ELSE ApplyCleaners(Tail(cleaners), Kill(Head(cleaners), gen))

\* Mutant of ManageStagnation: the scores are compared before the counter is
\* tested against the target.
ManageStagnationCountFirst(stag, gen, curr_top_score) ==
    IF curr_top_score = stag.previous_top_score
    THEN [stagnation |-> [stag EXCEPT !.current_stagnation = @ + 1,
                                      !.previous_top_score = curr_top_score],
          gen |-> gen,
          applied |-> << >>]
    ELSE IF stag.target_stagnation = stag.current_stagnation
    THEN [stagnation |-> [stag EXCEPT !.current_stagnation = 0,
                                      !.previous_top_score = curr_top_score],
          gen |-> ApplyCleaners(stag.cleaners, gen),
          applied |-> stag.cleaners]
    ELSE [stagnation |-> [stag EXCEPT !.current_stagnation = 0,
                                      !.previous_top_score = curr_top_score],
          gen |-> gen,
          applied |-> << >>]

\* Population::manage_stagnation: the Stagnant record and the generation it
\* leaves, and the cleaners it applied.
ManageStagnation(stag, gen, curr_top_score) ==
    IF stag.target_stagnation = stag.current_stagnation
    THEN [stagnation |-> [stag EXCEPT !.current_stagnation = 0,
                                      !.previous_top_score = curr_top_score],
          gen |-> ApplyCleaners(stag.cleaners, gen),
          applied |-> stag.cleaners]
    ELSE IF curr_top_score = stag.previous_top_score
    THEN [stagnation |-> [stag EXCEPT !.current_stagnation = @ + 1,
                                      !.previous_top_score = curr_top_score],
          gen |-> gen,
          applied |-> << >>]
    ELSE [stagnation |-> [stag EXCEPT !.current_stagnation = 0,
                                      !.previous_top_score = curr_top_score],
          gen |-> gen,
          applied |-> << >>]

VARIABLES
    \* Population's fields
    size, dynamic_distance, config, curr_gen, stagnation, solve,
    \* the caller: whether training has begun, the number of train calls made,
    \* what the last one returned and which cleaners it applied
    started, cycle, ret, applied,
    \* the latest train calls in a row whose top differed from the top of the
    \* call before, and whether none of them applied a cleaner or ended with
    \* a non-zero stagnation count
    streak, streakQuiet,
    \* run: where the call stands, its iteration counter, the train and
    \* predicate calls it made, the predicate's last arguments and answer,
    \* how many answers were true, and the genome it returned
    runState, index, runTrains, predCalls, lastCall, predTrue, runResult,
    \* Population's selection policies
    survivor_criteria, parental_criteria,
    \* populate_base under way: whether T implements Genome::base, where the
    \* call stands ("panicked" also when populate_clone did), each index's
    \* closure (job), the holder of the
    \* environment's write lock (0: free), whether the lock is poisoned, and
    \* the genome each closure built (0: none yet)
    has_base, populating, job, env_writer, env_poisoned, made,
    \* a call of adjust_distance on its own: none, or the config and niche
    \* count it was made on and the config it left
    adjust_call

popVars == << size, dynamic_distance, config, curr_gen, stagnation, solve >>
trainVars == << cycle, ret, applied, streak, streakQuiet >>
runVars == << runState, index, runTrains, predCalls, lastCall, predTrue, runResult >>
critVars == << survivor_criteria, parental_criteria >>
baseVars == << has_base, populating, job, env_writer, env_poisoned, made >>
extVars == << critVars, baseVars, adjust_call >>
vars == << popVars, started, trainVars, runVars, extVars >>

\* Population::new(): size: 100
DefaultSize == 100

\* Population::new()
Init ==
    /\ size = DefaultSize
    /\ dynamic_distance = FALSE
    /\ config = ConfigNew
    /\ curr_gen = GenerationNew
    /\ stagnation = StagnantNew(0, << >>)
    /\ solve = EmptyProblem
    /\ started = FALSE
    /\ cycle = 0
    /\ ret = None
    /\ applied = << >>
    /\ streak = 0
    /\ streakQuiet = TRUE
    /\ runState = "idle"
    /\ index = 0
    /\ runTrains = 0
    /\ predCalls = 0
    /\ lastCall = None
    /\ predTrue = 0
    /\ runResult = None
    /\ survivor_criteria = "Fittest"
    /\ parental_criteria = "BiasedRandom"
    /\ has_base = TRUE
    /\ populating = "no"
    /\ job = << >>
    /\ env_writer = 0
    /\ env_poisoned = FALSE
    /\ made = << >>
    /\ adjust_call = None

\* ---- the builder chain (before the first train or run)

Building == ~started /\ runState = "idle"

\* The member lists of at most n genomes.
GenomeLists(n) == UNION { [1..k -> Genomes] : k \in 0..n }

\* size(n)
Size(n) ==
    /\ Building
    /\ size' = n
    /\ UNCHANGED << dynamic_distance, config, curr_gen, stagnation, solve,
                    started, trainVars, runVars, extVars >>

\* dynamic_distance(opt)
DynamicDistance(opt) ==
    /\ Building
    /\ dynamic_distance' = opt
    /\ UNCHANGED << size, config, curr_gen, stagnation, solve,
                    started, trainVars, runVars, extVars >>

\* configure(spec)
Configure(spec) ==
    /\ Building
    /\ config' = spec
    /\ UNCHANGED << size, dynamic_distance, curr_gen, stagnation, solve,
                    started, trainVars, runVars, extVars >>

\* stagnation(stag, cleaner)
Stagnation(stag, cleaner) ==
    /\ Building
    /\ stagnation' = StagnantNew(stag, cleaner)
    /\ UNCHANGED << size, dynamic_distance, config, curr_gen, solve,
                    started, trainVars, runVars, extVars >>

\* impose(prob)
Impose(prob) ==
    /\ Building
    /\ solve' = prob
    /\ UNCHANGED << size, dynamic_distance, config, curr_gen, stagnation,
                    started, trainVars, runVars, extVars >>

\* The generations handed to populate_gen: built by the caller, with a niche
\* list of their own.
Generations ==
    { Generation([i \in 1..Len(vals) |-> Container(vals[i])], << 1 >>,
                 "Fittest", "BiasedRandom") :
        vals \in GenomeLists(1) }

\* populate_gen(gen)
PopulateGen(gen) ==
    /\ Building
    /\ curr_gen' = gen
    /\ UNCHANGED << size, dynamic_distance, config, stagnation, solve,
                    started, trainVars, runVars, extVars >>

\* populate_base(): one Container per index of 0..size, each around what
\* T::base returns (bases lists the results).
PopulateBase ==
    /\ Building
    /\ size <= MaxSize
    /\ \E bases \in [1..size -> Genomes] :
          curr_gen' = Generation([i \in 1..size |-> Container(bases[i])], << >>,
                                 "Fittest", "BiasedRandom")
    /\ UNCHANGED << size, dynamic_distance, config, stagnation, solve,
                    started, trainVars, runVars, extVars >>

\* populate_vec(vals)
PopulateVec(vals) ==
    /\ Building
    /\ curr_gen' = Generation([i \in 1..Len(vals) |-> Container(vals[i])], << >>,
                              "Fittest", "BiasedRandom")
    /\ UNCHANGED << size, dynamic_distance, config, stagnation, solve,
                    started, trainVars, runVars, extVars >>

\* Mutant of PopulateClone: the index range taken inclusive, 0..=size.
PopulateCloneInclusive(original) ==
    /\ Building
    /\ size <= MaxSize
    /\ curr_gen' = Generation([i \in 1..(size + 1) |-> Container(original)], << >>,
                              "Fittest", "BiasedRandom")
    /\ UNCHANGED << size, dynamic_distance, config, stagnation, solve,
                    started, trainVars, runVars, extVars >>

\* The width of usize, scaled down from the target's 64 (or 32) bits so that
\* its values stay within the model checker's integers; the i32 sizes of
\* the model are small against it, as an i32 is against a usize.
UsizeBits == 16

\* `self.size as usize`: the i32 reinterpreted modulo 2^width.
AsUsize(n) == n % (2 ^ UsizeBits)

\* isize::MAX, the most bytes (so the most Containers) a Vec can ask for.
IsizeMax == 2 ^ (UsizeBits - 1) - 1

\* populate_clone(original), over the range 0..self.size as usize
PopulateClone(original) ==
    /\ Building
    /\ AsUsize(size) <= MaxSize
    /\ curr_gen' = Generation([i \in 1..AsUsize(size) |-> Container(original)], << >>,
                              "Fittest", "BiasedRandom")
    /\ UNCHANGED << size, dynamic_distance, config, stagnation, solve,
                    started, trainVars, runVars, extVars >>

\* populate_clone(original) when the range is longer than any Vec: collect()
\* panics on the allocation (capacity overflow) and no population is
\* returned.
PopulateCloneOverflow ==
    /\ Building
    /\ populating = "no"
    /\ AsUsize(size) > IsizeMax
    /\ populating' = "panicked"
    /\ UNCHANGED << popVars, started, trainVars, runVars, critVars,
                    has_base, job, env_writer, env_poisoned, made, adjust_call >>

\* survivor_criteria(survive)
SetSurvivorCriteria(survive) ==
    /\ Building
    /\ survivor_criteria' = survive
    /\ UNCHANGED << popVars, started, trainVars, runVars,
                    parental_criteria, baseVars, adjust_call >>

\* parental_criteria(parents)
SetParentalCriteria(parents) ==
    /\ Building
    /\ parental_criteria' = parents
    /\ UNCHANGED << popVars, started, trainVars, runVars,
                    survivor_criteria, baseVars, adjust_call >>

\* ---- train

\* train: the members after self.curr_gen.optimize(self.solve.clone())
Optimized == Optimize(curr_gen.members, solve)

\* Mutant of top_member: the best member taken before optimize has scored.
TopBeforeOptimize == BestMember(curr_gen.members)

\* end_generation: let top_member = self.curr_gen.best_member()?
top_member == BestMember(Optimized)

\* Mutant of Adjusted: the distance is adjusted whether or not dynamic
\* distance is on.
AdjustedAlways == AdjustDistance(config, Len(curr_gen.species))

\* end_generation: if self.dynamic_distance { self.adjust_distance(); }
Adjusted ==
    IF dynamic_distance THEN AdjustDistance(config, Len(curr_gen.species)) ELSE config

\* Mutant of Speciated: speciate is handed the threshold as it was before
\* this cycle's adjustment.
SpeciatedBeforeAdjust == Speciate([curr_gen EXCEPT !.members = Optimized], config.distance)

\* end_generation: self.curr_gen.speciate(self.config.distance, ...)
Speciated == Speciate([curr_gen EXCEPT !.members = Optimized], Adjusted.distance)

\* end_generation: self.manage_stagnation(top_member.0)
Managed == ManageStagnation(stagnation, Speciated, top_member.score)

\* Mutant of NextSize: breeds as many members as the generation holds.
NextSizeKept == Len(curr_gen.members)

\* end_generation: the size handed to create_next_generation, self.size
NextSize == size

\* Mutant of EndGeneration: the distance is adjusted before best_member is
\* asked, so also when there is no member.
EndGenerationAdjustsFirst ==
    LET top == top_member
        managed == Managed
    IN IF top = None
       THEN /\ ret' = None
            /\ applied' = << >>
            /\ config' = Adjusted
            /\ UNCHANGED << curr_gen, stagnation >>
       ELSE /\ config' = Adjusted
            /\ stagnation' = managed.stagnation
            /\ applied' = managed.applied
            /\ \E children \in [1..NextSize -> Genomes] :
                  LET next == CreateNextGeneration(managed.gen, NextSize, children)
                  IN IF next = None
                     THEN curr_gen' = managed.gen /\ ret' = None
                     ELSE curr_gen' = next /\ ret' = top

\* end_generation, after optimize: none by either `?`, else the top member
\* captured first.  The fields written before the second `?` stay written.
\* children are the genomes create_next_generation fills the new generation
\* with.
EndGeneration ==
    LET top == top_member
        managed == Managed
    IN IF top = None
       THEN /\ ret' = None
            /\ applied' = << >>
            /\ UNCHANGED << config, curr_gen, stagnation >>
       ELSE /\ config' = Adjusted
            /\ stagnation' = managed.stagnation
            /\ applied' = managed.applied
            /\ \E children \in [1..NextSize -> Genomes] :
                  LET next == CreateNextGeneration(managed.gen, NextSize, children)
                  IN IF next = None
                     THEN curr_gen' = managed.gen /\ ret' = None
                     ELSE curr_gen' = next /\ ret' = top

\* Mutant of SolveAfterTrain: train leaves a fresh P::empty() in place of
\* the Problem.
SolveEmptied == EmptyProblem

\* train: self.solve.clone() hands optimize another handle to the one
\* Problem, which it reads; the Problem stays as it is.
SolveAfterTrain == solve

\* One call of train, with what the caller observes of it.
TrainBody ==
    /\ size <= MaxSize
    /\ EndGeneration
    /\ cycle' = cycle + 1
    /\ started' = TRUE
    /\ LET differs == /\ top_member # None
                      /\ cycle >= 1
                      /\ top_member.score # stagnation.previous_top_score
           quiet == applied' = << >> /\ stagnation'.current_stagnation = 0
       IN /\ streak' = IF differs THEN (IF streak < 3 THEN streak + 1 ELSE 3) ELSE 0
          /\ streakQuiet' = IF differs THEN (IF streak = 0 THEN quiet ELSE streakQuiet /\ quiet)
                            ELSE TRUE
    /\ solve' = SolveAfterTrain
    /\ UNCHANGED << size, dynamic_distance, extVars >>

\* A train call among the MaxCycles a behaviour makes.
TrainCall ==
    /\ cycle < MaxCycles
    /\ TrainBody

\* train(), called by the user
Train ==
    /\ runState = "idle"
    /\ TrainCall
    /\ UNCHANGED runVars

\* ---- run

\* run(runner): let mut index = 0; loop { ... }.  run is called on the
\* population as built: its loop makes the same train calls a caller makes
\* by hand, so one behaviour does not mix the two.
RunStart ==
    /\ runState = "idle"
    /\ cycle = 0
    /\ runState' = "running"
    /\ index' = 0
    /\ started' = TRUE
    /\ UNCHANGED << popVars, trainVars, runTrains, predCalls, lastCall, predTrue, runResult,
                    extVars >>

\* Mutant of RunSome: the iteration is counted before the runner is asked.
RunSomeCountsFirst(answer) ==
    /\ predCalls' = predCalls + 1
    /\ lastCall' = [top |-> ret'.genome, fit |-> ret'.score,
                    index |-> index + 1, answer |-> answer]
    /\ IF answer
       THEN /\ runState' = "ok"
            /\ runResult' = [solution |-> ret'.genome]
            /\ predTrue' = predTrue + 1
            /\ UNCHANGED index
       ELSE /\ index' = index + 1
            /\ UNCHANGED << runState, predTrue, runResult >>

\* run, the arm Some(result): the runner is asked about the top member, its
\* fitness and index (answer is what it returns); true returns Ok with a
\* clone of that member, false counts the iteration.
RunSome(answer) ==
    /\ predCalls' = predCalls + 1
    /\ lastCall' = [top |-> ret'.genome, fit |-> ret'.score,
                    index |-> index, answer |-> answer]
    /\ IF answer
       THEN /\ runState' = "ok"
            /\ runResult' = [solution |-> ret'.genome]
            /\ predTrue' = predTrue + 1
            /\ UNCHANGED index
       ELSE /\ index' = index + 1
            /\ UNCHANGED << runState, predTrue, runResult >>

\* Mutant of RunNone: a failed train is skipped and the loop goes on.
RunNoneSkips ==
    UNCHANGED << runState, index, predCalls, lastCall, predTrue, runResult >>

\* run, the arm None => return Err("Error Training")
RunNone ==
    /\ runState' = "err"
    /\ UNCHANGED << index, predCalls, lastCall, predTrue, runResult >>

\* One turn of run's loop: match self.train() { ... }
RunLoop(answer) ==
    /\ runState = "running"
    /\ TrainCall
    /\ runTrains' = runTrains + 1
    /\ IF ret' = None THEN RunNone ELSE RunSome(answer)

Next ==
    \/ \E n \in 0..MaxSize : Size(n)
    \/ \E opt \in BOOLEAN : DynamicDistance(opt)
    \/ \E spec \in Configs : Configure(spec)
    \/ \E stag \in 0..MaxTarget, cleaner \in CleanerLists : Stagnation(stag, cleaner)
    \/ \E prob \in Problems : Impose(prob)
    \/ \E gen \in Generations : PopulateGen(gen)
    \/ PopulateBase
    \/ \E vals \in GenomeLists(MaxSize) : PopulateVec(vals)
    \/ \E original \in Genomes : PopulateClone(original)
    \/ Train
    \/ RunStart
    \/ \E answer \in BOOLEAN : RunLoop(answer)

Spec == Init /\ [][Next]_vars

\* The selection policies: a population of any size whose policies are set
\* before or after it is seeded by populate_base / populate_vec /
\* populate_clone, and then trained.
NextCriteria ==
    \/ \E survive \in SurvivalCriteria : SetSurvivorCriteria(survive)
    \/ \E parents \in ParentalCriteria : SetParentalCriteria(parents)
    \/ \E n \in 0..MaxSize : Size(n)
    \/ PopulateBase
    \/ \E vals \in GenomeLists(MaxSize) : PopulateVec(vals)
    \/ \E original \in Genomes : PopulateClone(original)
    \/ Train

SpecCriteria == Init /\ [][NextCriteria]_vars

\* The whole builder chain but the Problem: size, dynamic distance, Config,
\* stagnation monitor and selection policies set in any order around the
\* seeding, and then trained.
NextFrame ==
    \/ NextCriteria
    \/ \E opt \in BOOLEAN : DynamicDistance(opt)
    \/ \E spec \in Configs : Configure(spec)
    \/ \E stag \in 0..MaxTarget, cleaner \in CleanerLists : Stagnation(stag, cleaner)

SpecFrame == Init /\ [][NextFrame]_vars

\* Sizes of either sign: size(n) for any n from -MaxNegative up, the seeding
\* by populate_base or populate_clone, and run.
Constructed == populating # "panicked"

NextSigned ==
    \/ \E n \in (0 - MaxNegative)..MaxSize : Constructed /\ Size(n)
    \/ Constructed /\ PopulateBase
    \/ \E original \in Genomes : Constructed /\ PopulateClone(original)
    \/ PopulateCloneOverflow
    \/ Constructed /\ RunStart
    \/ \E answer \in BOOLEAN : Constructed /\ RunLoop(answer)

SpecSigned == Init /\ [][NextSigned]_vars

\* adjust_distance called on a config of any distance and target, with any
\* number of niches in the current generation.
AdjustDistanceCall(cfg, n_species) ==
    /\ adjust_call' = [before |-> cfg, n_species |-> n_species,
                       after |-> AdjustDistance(cfg, n_species)]
    /\ UNCHANGED << popVars, started, trainVars, runVars, critVars, baseVars >>

NextAdjust ==
    \E d \in 0..MaxDistance, t \in 0..MaxTarget, n \in 0..MaxSize :
        AdjustDistanceCall([ConfigNew EXCEPT !.distance = d, !.species_target = t], n)

SpecAdjust == Init /\ [][NextAdjust]_vars

\* ---- populate_base, closure by closure

\* Population::new() for a genome type that implements Genome::base or
\* leaves the default, which panics.
InitBase ==
    /\ has_base \in BOOLEAN
    /\ size = DefaultSize
    /\ dynamic_distance = FALSE
    /\ config = ConfigNew
    /\ curr_gen = GenerationNew
    /\ stagnation = StagnantNew(0, << >>)
    /\ solve = EmptyProblem
    /\ started = FALSE
    /\ cycle = 0
    /\ ret = None
    /\ applied = << >>
    /\ streak = 0
    /\ streakQuiet = TRUE
    /\ runState = "idle"
    /\ index = 0
    /\ runTrains = 0
    /\ predCalls = 0
    /\ lastCall = None
    /\ predTrue = 0
    /\ runResult = None
    /\ survivor_criteria = "Fittest"
    /\ parental_criteria = "BiasedRandom"
    /\ populating = "no"
    /\ job = << >>
    /\ env_writer = 0
    /\ env_poisoned = FALSE
    /\ made = << >>
    /\ adjust_call = None

\* size(n), before populate_base takes the population
BaseSize(n) ==
    /\ populating = "no"
    /\ Size(n)

\* populate_base(): (0..self.size).into_par_iter().map(|_| { ... }), one
\* closure per index, run by the pool's workers in any interleaving.
BaseStart ==
    /\ Building
    /\ populating = "no"
    /\ size <= MaxSize
    /\ populating' = "running"
    /\ job' = [i \in 1..size |-> "wait"]
    /\ made' = [i \in 1..size |-> 0]
    /\ UNCHANGED << popVars, started, trainVars, runVars, critVars,
                    has_base, env_writer, env_poisoned, adjust_call >>

\* Mutant of BaseLock: the closure takes the lock shared, as a reader.
BaseLockShared(i) ==
    /\ populating = "running"
    /\ job[i] = "wait"
    /\ IF env_poisoned
       THEN job' = [job EXCEPT ![i] = "panic"] /\ UNCHANGED env_writer
       ELSE job' = [job EXCEPT ![i] = "base"] /\ env_writer' = i
    /\ UNCHANGED << popVars, started, trainVars, runVars, critVars,
                    has_base, populating, env_poisoned, made, adjust_call >>

\* let mut lock_set = self.environment.write().unwrap(): waits until no one
\* holds the lock; on a poisoned lock write() is an Err and unwrap panics.
BaseLock(i) ==
    /\ populating = "running"
    /\ job[i] = "wait"
    /\ env_writer = 0
    /\ IF env_poisoned
       THEN job' = [job EXCEPT ![i] = "panic"] /\ UNCHANGED env_writer
       ELSE job' = [job EXCEPT ![i] = "base"] /\ env_writer' = i
    /\ UNCHANGED << popVars, started, trainVars, runVars, critVars,
                    has_base, populating, env_poisoned, made, adjust_call >>

\* Mutant of BaseCall: the default Genome::base hands out a genome.
BaseCallDefaulted(i) ==
    /\ populating = "running"
    /\ job[i] = "base"
    /\ \E g \in Genomes : made' = [made EXCEPT ![i] = g]
    /\ job' = [job EXCEPT ![i] = "built"]
    /\ UNCHANGED << env_writer, env_poisoned >>
    /\ UNCHANGED << popVars, started, trainVars, runVars, critVars,
                    has_base, populating, adjust_call >>

\* T::base(&mut lock_set), the write guard held: the genome type's own base
\* returns a genome; the default panics, and the unwinding drops the guard,
\* which poisons the lock.
BaseCall(i) ==
    /\ populating = "running"
    /\ job[i] = "base"
    /\ IF has_base
       THEN /\ \E g \in Genomes : made' = [made EXCEPT ![i] = g]
            /\ job' = [job EXCEPT ![i] = "built"]
            /\ UNCHANGED << env_writer, env_poisoned >>
       ELSE /\ job' = [job EXCEPT ![i] = "panic"]
            /\ env_writer' = 0
            /\ env_poisoned' = TRUE
            /\ UNCHANGED made
    /\ UNCHANGED << popVars, started, trainVars, runVars, critVars,
                    has_base, populating, adjust_call >>

\* The closure returns its Container and lock_set goes out of scope.
BaseUnlock(i) ==
    /\ populating = "running"
    /\ job[i] = "built"
    /\ job' = [job EXCEPT ![i] = "done"]
    /\ env_writer' = IF env_writer = i THEN 0 ELSE env_writer
    /\ UNCHANGED << popVars, started, trainVars, runVars, critVars,
                    has_base, populating, env_poisoned, made, adjust_call >>

\* .collect(), every closure returned: the Containers in index order become
\* the current generation and populate_base returns the population.
BaseReturn ==
    /\ populating = "running"
    /\ \A i \in 1..Len(job) : job[i] = "done"
    /\ curr_gen' = Generation([i \in 1..Len(made) |-> Container(made[i])], << >>,
                              "Fittest", "BiasedRandom")
    /\ populating' = "returned"
    /\ UNCHANGED << size, dynamic_distance, config, stagnation, solve, started,
                    trainVars, runVars, critVars,
                    has_base, job, env_writer, env_poisoned, made, adjust_call >>

\* A closure panicked and no closure is under way: the panic leaves
\* populate_base, which returns nothing (closures not yet begun may never
\* run).
BasePanic ==
    /\ populating = "running"
    /\ \E i \in 1..Len(job) : job[i] = "panic"
    /\ \A i \in 1..Len(job) : job[i] \notin {"base", "built"}
    /\ populating' = "panicked"
    /\ UNCHANGED << popVars, started, trainVars, runVars, critVars,
                    has_base, job, env_writer, env_poisoned, made, adjust_call >>

\* train(), on the population populate_base returned
BaseTrain ==
    /\ populating = "returned"
    /\ Train

\* One step of a closure of populate_base, or its end.
BaseStep ==
    \/ \E i \in 1..Len(job) : BaseLock(i)
    \/ \E i \in 1..Len(job) : BaseCall(i)
    \/ \E i \in 1..Len(job) : BaseUnlock(i)
    \/ BaseReturn
    \/ BasePanic

NextBase ==
    \/ \E n \in 0..MaxSize : BaseSize(n)
    \/ BaseStart
    \/ BaseStep
    \/ BaseTrain

SpecBase == InitBase /\ [][NextBase]_vars

\* The distance auto-tune scenario: distance 3.0, five target niches, dynamic
\* distance on, genomes 1.0 apart.
TuneConfig ==
    [inbreed_rate |-> 0, crossover_rate |-> 50, distance |-> 300, species_target |-> 5]

\* Population::new().size(n).dynamic_distance(true).configure(TuneConfig)
InitTune ==
    /\ size \in 1..MaxSize
    /\ dynamic_distance = TRUE
    /\ config = TuneConfig
    /\ curr_gen = GenerationNew
    /\ stagnation = StagnantNew(0, << >>)
    /\ solve = EmptyProblem
    /\ started = FALSE
    /\ cycle = 0
    /\ ret = None
    /\ applied = << >>
    /\ streak = 0
    /\ streakQuiet = TRUE
    /\ runState = "idle"
    /\ index = 0
    /\ runTrains = 0
    /\ predCalls = 0
    /\ lastCall = None
    /\ predTrue = 0
    /\ runResult = None
    /\ survivor_criteria = "Fittest"
    /\ parental_criteria = "BiasedRandom"
    /\ has_base = TRUE
    /\ populating = "no"
    /\ job = << >>
    /\ env_writer = 0
    /\ env_poisoned = FALSE
    /\ made = << >>
    /\ adjust_call = None

\* train(), one of the scenario's TuneCycles calls
TuneTrain ==
    /\ runState = "idle"
    /\ cycle < TuneCycles
    /\ TrainBody
    /\ UNCHANGED runVars

NextTune ==
    \/ \E vals \in GenomeLists(MaxSize) : PopulateVec(vals)
    \/ \E original \in Genomes : PopulateClone(original)
    \/ TuneTrain

SpecTune == InitTune /\ [][NextTune]_vars

\* ------------------------------------------------------------------ claims

\* C1: after every call of train that returns a result the current generation
\* has exactly `size` members, however the first generation was seeded and
\* whether or not cleaners ran in that cycle.
C1_SizeAfterTrain ==
    (cycle >= 1 /\ ret # None) => Len(curr_gen.members) = size

\* C1's case: a train that applied cleaners has returned a result, and the
\* generation holds MaxSize members.
C1_Witness ==
    /\ cycle >= 1
    /\ ret # None
    /\ applied # << >>
    /\ size = MaxSize
    /\ Len(curr_gen.members) = MaxSize

\* C2: what train returns is a maximum-fitness member of the generation it
\* was called on, as the Problem scores it: the score is the highest solve
\* gives any member and the genome is one that attains it, whatever distance
\* adjustment, speciation, cleaners and breeding did afterwards.
C2_ReturnsTopAfterOptimize ==
    [][(cycle' = cycle + 1 /\ ret' # None) =>
          LET m == curr_gen.members
          IN /\ \E i \in 1..Len(m) :
                   m[i].genome = ret'.genome /\ solve[m[i].genome] = ret'.score
             /\ \A j \in 1..Len(m) : solve[m[j].genome] <= ret'.score]_vars

\* C2's case: a train with dynamic distance on applied cleaners and returned
\* a top score above 0.0.
C2_Witness ==
    /\ cycle >= 1
    /\ ret # None
    /\ ret.score > 0
    /\ applied # << >>
    /\ dynamic_distance

\* C3: the k-th runner call (from 0) gets index k with the score and genome
\* the (k+1)-th train of the run returned; run returns Ok at the first true
\* answer, with the genome of that call, and trains no more.
C3_RunProtocol ==
    /\ [](/\ runState \in {"running", "ok"} => predCalls = runTrains
          /\ (predCalls > 0) => lastCall.index = predCalls - 1
          /\ (predCalls > 0 /\ runState # "err") =>
                (lastCall.fit = ret.score /\ lastCall.top = ret.genome)
          /\ runState = "running" => (predTrue = 0 /\ (predCalls > 0 => ~lastCall.answer))
          /\ runState = "ok" =>
                /\ predTrue = 1
                /\ lastCall.answer
                /\ runResult = [solution |-> lastCall.top])
    /\ [][runState = "ok" => (cycle' = cycle /\ runState' = "ok")]_vars

\* C3's case: run has returned Ok after the runner answered false at least
\* once.
C3_Witness ==
    runState = "ok" /\ predCalls >= 2 /\ lastCall.index = predCalls - 1

\* C4: run returns the error exactly when a train of it returns none; the
\* runner is not called for that cycle and no train follows.  On an empty
\* generation the first train fails, with no runner call at all.
C4_RunError ==
    /\ [][(runState = "running" /\ cycle' = cycle + 1) =>
             /\ (ret' = None) <=> (runState' = "err")
             /\ (ret' = None) => predCalls' = predCalls
             /\ (curr_gen.members = << >>) => (runState' = "err" /\ predCalls' = predCalls)]_vars
    /\ [][(runState' = "err" /\ runState # "err") =>
             (runState = "running" /\ cycle' = cycle + 1 /\ ret' = None)]_vars
    /\ [][runState = "err" => (cycle' = cycle /\ runState' = "err")]_vars

\* C4's case: run on an empty generation has returned the error, the runner
\* never called.
C4_Witness ==
    /\ runState = "err"
    /\ runTrains = 1
    /\ predCalls = 0
    /\ curr_gen.members = << >>

\* C5 as stated: with dynamic distance enabled config.distance is at least
\* 0.1 at all times, the initial state and the default Config included.
C5_FloorAtAllTimes ==
    dynamic_distance => config.distance >= DistanceFloor

\* C5 as amended: with dynamic distance enabled, a train on a generation that
\* has members leaves config.distance at 0.1 or more, and a train never takes
\* it back below 0.1.
C5_FloorAfterAdjust ==
    [][(cycle' = cycle + 1 /\ dynamic_distance
          /\ (curr_gen.members # << >> \/ config.distance >= DistanceFloor)) =>
          config'.distance >= DistanceFloor]_vars

\* C5's case: with dynamic distance enabled a train has returned and the
\* distance stands at the floor, which no Config installs.
C5_Witness ==
    /\ dynamic_distance
    /\ cycle >= 1
    /\ ret # None
    /\ config.distance = DistanceFloor

\* C6: current_stagnation never exceeds target_stagnation, target 0 included.
C6_StagnationBounded ==
    stagnation.current_stagnation <= stagnation.target_stagnation

\* C6's case: the counter has climbed to a target of 2 or more.
C6_Witness ==
    /\ cycle >= 2
    /\ stagnation.target_stagnation >= 2
    /\ stagnation.current_stagnation = stagnation.target_stagnation

\* C7 as stated: the cleaners run and the counter is reset in the train cycle
\* whose increment reached the target, so no train cycle ends with
\* current_stagnation = target_stagnation > 0.
C7_ResetInSameCycle ==
    cycle >= 1 =>
        ~(/\ stagnation.target_stagnation > 0
          /\ stagnation.current_stagnation = stagnation.target_stagnation)

\* Whether the Problem returns the same fitness for every genome.
ConstantFitness == \A g, h \in Genomes : solve[g] = solve[h]

\* C8 as stated: with target_stagnation = k >= 1 and a constant-fitness
\* Problem, whatever the constant, the cleaners first fire in train cycle
\* k + 1, neither earlier nor later, and the counter is 0 after that cycle.
C8_FiresInCycleKPlus1 ==
    (ConstantFitness /\ stagnation.target_stagnation >= 1 /\ stagnation.cleaners # << >>) =>
        /\ (1 <= cycle /\ cycle <= stagnation.target_stagnation) => applied = << >>
        /\ (cycle = stagnation.target_stagnation + 1 /\ ret # None) =>
              (applied # << >> /\ stagnation.current_stagnation = 0)

\* C9 as stated: with target_stagnation = 0 no train cycle applies the
\* configured cleaners, whatever list stagnation(0, cleaners) installed.
C9_TargetZeroDisables ==
    stagnation.target_stagnation = 0 => applied = << >>

\* C10 as stated: for target_stagnation >= 1, over three train cycles in a
\* row whose top differs from the top of the cycle before, the counter is 0
\* after each and no cleaner is applied.
C10_DistinctTopsStayQuiet ==
    (stagnation.target_stagnation >= 1 /\ streak = 3) => streakQuiet

\* C11 as stated: once survivor_criteria(c) / parental_criteria(c) are called,
\* before or after populate_base / populate_vec / populate_clone, the
\* generation train breeds from carries the installed policies.
C11_InstalledCriteriaReachGeneration ==
    [][(cycle' = cycle + 1 /\ curr_gen.members # << >>) =>
          /\ curr_gen.survival_criteria = survivor_criteria
          /\ curr_gen.parental_criteria = parental_criteria]_vars

\* C12: populate_clone(g) leaves a current generation of exactly `size`
\* members (the size in effect at the call), each with genome g, fitness
\* 0.0 and no species, and an empty species list.
C12_PopulateClone ==
    [][\A g \in Genomes :
          PopulateClone(g) =>
             /\ Len(curr_gen'.members) = size
             /\ \A i \in 1..Len(curr_gen'.members) :
                   /\ curr_gen'.members[i].genome = g
                   /\ curr_gen'.members[i].fitness_score = 0
                   /\ curr_gen'.members[i].species = 0
             /\ curr_gen'.species = << >>]_vars

\* C12's case: a population of MaxSize clones of genome 2, not yet trained.
C12_Witness ==
    /\ ~started
    /\ size = MaxSize
    /\ Len(curr_gen.members) = MaxSize
    /\ \A i \in 1..Len(curr_gen.members) : curr_gen.members[i] = Container(2)
    /\ curr_gen.species = << >>

\* C13: no train cycle, called by hand or by run, changes the Problem: its
\* value after the cycle is its value before, whether installed by impose or
\* the default.
C13_ProblemReadOnly ==
    [][cycle' = cycle + 1 => solve' = solve]_vars

\* C13's case: two train cycles have scored members above 0.0 against an
\* imposed Problem, which is still the one imposed.
C13_Witness ==
    /\ cycle >= 2
    /\ solve # EmptyProblem
    /\ ret # None
    /\ ret.score = solve[ret.genome]
    /\ ret.score > 0

\* C14 as stated: from distance 3.0 with five target niches, dynamic distance
\* on and genomes 1.0 apart, config.distance grows from train cycle to train
\* cycle until there is one species: no cycle entered with a species count
\* other than 1 lowers it.
C14_DistanceGrows ==
    [][(cycle' = cycle + 1 /\ curr_gen.members # << >> /\ Len(curr_gen.species) # 1) =>
          config'.distance >= config.distance]_vars

\* C14 as amended: in that scenario every train cycle entered with fewer than
\* five species lowers config.distance by 0.1, down to the floor of 0.1
\* (the threshold shrinks), and while the threshold is above 1.0 all members
\* are in one species.
C14_DistanceShrinks ==
    /\ [][(cycle' = cycle + 1 /\ curr_gen.members # << >>
              /\ Len(curr_gen.species) < config.species_target) =>
             config'.distance =
                IF config.distance - DistanceStep < DistanceTest THEN DistanceFloor
                ELSE config.distance - DistanceStep]_vars
    /\ []((cycle >= 1 /\ ret # None /\ config.distance > DistanceUnit) =>
             Len(curr_gen.species) = 1)

\* C14's case: twenty train cycles have brought the threshold from 3.0 down
\* to 1.0, where two genomes 1.0 apart fall into two species.
C14_Witness ==
    /\ config.species_target = 5
    /\ dynamic_distance
    /\ cycle = 20
    /\ config.distance = DistanceUnit
    /\ Len(curr_gen.species) = 2

AdjustChange ==
    LET b == adjust_call.before.distance
        a == adjust_call.after.distance
    IN IF a >= b THEN a - b ELSE b - a

\* What adjust_distance computes: the 0.1 step down, up or none by the niche
\* count against the target, then anything below 0.2 made exactly 0.1; the
\* other fields of the config as they were.
AdjustComputes ==
    LET b == adjust_call.before
        n == adjust_call.n_species
        moved == IF n < b.species_target THEN b.distance - 10
                 ELSE IF n > b.species_target THEN b.distance + 10
                 ELSE b.distance
    IN adjust_call.after = [b EXCEPT !.distance = IF moved < 20 THEN 10 ELSE moved]

\* C16 as stated: adjust_distance computes the step and the clamp; so one
\* call on a distance of at least 0.1 changes it by at most 0.1, and leaves
\* it unchanged when the niche count equals the target.
C16_AsStated ==
    adjust_call # None =>
        /\ AdjustComputes
        /\ adjust_call.before.distance >= 10 => AdjustChange <= 10
        /\ (adjust_call.before.distance >= 10
              /\ adjust_call.n_species = adjust_call.before.species_target) =>
              adjust_call.after.distance = adjust_call.before.distance

\* C16 as amended: adjust_distance computes the step and the clamp; so one
\* call changes a distance of at least 0.1 by less than 0.2, and by at most
\* 0.1 unless it steps down from a distance strictly between 0.2 and 0.3
\* (which lands on 0.1); with the niche count equal to the target it leaves
\* the distance unchanged when that is at least 0.2 or exactly 0.1, and
\* makes any other distance 0.1.
C16_StepAndClamp ==
    adjust_call # None =>
        LET b == adjust_call.before.distance
            a == adjust_call.after.distance
            down == adjust_call.n_species < adjust_call.before.species_target
            equal == adjust_call.n_species = adjust_call.before.species_target
        IN /\ AdjustComputes
           /\ b >= 10 => AdjustChange < 20
           /\ (b >= 10 /\ ~(down /\ 20 < b /\ b < 30)) => AdjustChange <= 10
           /\ (equal /\ (b >= 20 \/ b = 10)) => a = b
           /\ (equal /\ b < 20) => a = 10

\* C16's case: a step down from 0.25 has landed on 0.1.
C16_Witness ==
    /\ adjust_call # None
    /\ adjust_call.before.distance = 25
    /\ adjust_call.n_species < adjust_call.before.species_target
    /\ adjust_call.after.distance = 10

\* C17: a train cycle adjusts the distance (when dynamic distance is on)
\* before it speciates and speciates before it breeds: the adjustment
\* compares the species list carried into the cycle (empty in the first)
\* with the target, and the species of the cycle are those speciate finds
\* under the threshold already adjusted.
C17_AdjustThenSpeciate ==
    [][(cycle' = cycle + 1 /\ ret' # None) =>
          LET carried == Len(curr_gen.species)
              moved == IF ~dynamic_distance THEN config.distance
                       ELSE IF carried < config.species_target THEN config.distance - 10
                       ELSE IF carried > config.species_target THEN config.distance + 10
                       ELSE config.distance
              scored == [curr_gen EXCEPT !.members = Optimize(@, solve)]
          IN /\ config'.distance =
                   IF dynamic_distance /\ moved < 20 THEN 10 ELSE moved
             /\ curr_gen'.species = Speciate(scored, config'.distance).species]_vars

\* C17's case: the first cycle lowered the threshold from 1.1 to 1.0 and two
\* genomes 1.0 apart, one species under 1.1, were made two species.
C17_Witness ==
    /\ dynamic_distance
    /\ cycle = 1
    /\ ret # None
    /\ config.distance = DistanceUnit
    /\ config.species_target = 2
    /\ Len(curr_gen.species) = 2

\* C18 as stated: a train call that returns none leaves config.distance,
\* current_stagnation, previous_top_score and the member list as they were,
\* whether the generation was empty on entry or a genocide emptied it.
C18_NoneLeavesState ==
    [][(cycle' = cycle + 1 /\ ret' = None) =>
          /\ config'.distance = config.distance
          /\ stagnation'.current_stagnation = stagnation.current_stagnation
          /\ stagnation'.previous_top_score = stagnation.previous_top_score
          /\ curr_gen'.members = curr_gen.members]_vars

\* C18 as amended: a train call that returns none on a generation empty on
\* entry leaves the config, the Stagnant record and the generation as they
\* were; one that returns none after a genocide removed every member has
\* adjusted the distance (under dynamic distance), reset current_stagnation
\* to 0, set previous_top_score to the cycle's top score and left the
\* generation without members.
C18_NoneOnEmptyLeavesState ==
    [][(cycle' = cycle + 1 /\ ret' = None) =>
          IF curr_gen.members = << >>
          THEN config' = config /\ stagnation' = stagnation /\ curr_gen' = curr_gen
          ELSE LET m == curr_gen.members
               IN /\ applied' # << >>
                  /\ curr_gen'.members = << >>
                  /\ stagnation'.current_stagnation = 0
                  /\ \E i \in 1..Len(m) :
                        stagnation'.previous_top_score = solve[m[i].genome]
                  /\ \A j \in 1..Len(m) :
                        solve[m[j].genome] <= stagnation'.previous_top_score
                  /\ config' = IF dynamic_distance
                               THEN AdjustDistance(config, Len(curr_gen.species))
                               ELSE config]_vars

\* C18's case: with dynamic distance on, a train on an empty generation has
\* returned none and the distance is still the 0.0 of Config::new().
C18_Witness ==
    /\ dynamic_distance
    /\ cycle = 1
    /\ ret = None
    /\ curr_gen.members = << >>
    /\ config = ConfigNew
    /\ stagnation.cleaners # << >>

\* C19: while populate_base runs at most one closure is inside Genome::base,
\* and it holds the environment's write lock from before the call until it
\* returns its Container; the call never stands still with a closure left
\* to run; and whatever the interleaving, the generation it returns has
\* exactly `size` members, the genomes base returned in index order, each
\* with fitness 0.0 and no species, and no species list.
C19_BaseSerialized ==
    /\ Cardinality({ i \in 1..Len(job) : job[i] \in {"base", "built"} }) <= 1
    /\ \A i \in 1..Len(job) : job[i] \in {"base", "built"} => env_writer = i
    /\ populating = "running" => ENABLED BaseStep
    /\ (populating = "returned" /\ cycle = 0) =>
          /\ Len(curr_gen.members) = size
          /\ \A i \in 1..Len(curr_gen.members) :
                /\ curr_gen.members[i].genome = made[i]
                /\ curr_gen.members[i].genome \in Genomes
                /\ curr_gen.members[i].fitness_score = 0
                /\ curr_gen.members[i].species = 0
          /\ curr_gen.species = << >>

\* C19's case: the last index's closure is inside base, holding the lock,
\* while the first index's closure waits for it.
C19_Witness ==
    /\ populating = "running"
    /\ size = MaxSize
    /\ job[1] = "wait"
    /\ job[MaxSize] = "built"
    /\ env_writer = MaxSize

\* C20 as stated: for a genome type without Genome::base, populate_base
\* never returns a population, at any size.
C20_NeverReturns ==
    ~has_base => populating # "returned"

\* C20 as amended: for a genome type without Genome::base, populate_base
\* returns only at size 0, with an empty generation; at any size of 1 or
\* more it panics, having installed no generation, and nothing is trained.
C20_FatalFromSizeOne ==
    ~has_base =>
        /\ populating = "returned" => (size = 0 /\ curr_gen.members = << >>)
        /\ populating \in {"running", "panicked"} => (curr_gen = GenerationNew /\ cycle = 0)
        /\ (populating = "running" /\ size >= 1) => ~ENABLED BaseReturn

\* C20's case: at size MaxSize the first closure panicked in base, the other
\* on the poisoned lock, and populate_base ended in the panic.
C20_Witness ==
    /\ ~has_base
    /\ size = MaxSize
    /\ populating = "panicked"
    /\ env_poisoned
    /\ \A i \in 1..Len(job) : job[i] = "panic"

\* C21: a train cycle changes nothing but the current generation,
\* config.distance, current_stagnation and previous_top_score: size,
\* dynamic_distance, inbreed_rate, crossover_rate, species_target,
\* target_stagnation, the cleaners and the installed selection policies stay
\* as they are, and with dynamic distance off so does config.distance.
C21_TrainFrame ==
    [][cycle' = cycle + 1 =>
          /\ size' = size
          /\ dynamic_distance' = dynamic_distance
          /\ config' = [config EXCEPT !.distance = config'.distance]
          /\ stagnation' = [stagnation EXCEPT
                               !.current_stagnation = stagnation'.current_stagnation,
                               !.previous_top_score = stagnation'.previous_top_score]
          /\ survivor_criteria' = survivor_criteria
          /\ parental_criteria' = parental_criteria
          /\ ~dynamic_distance => config'.distance = config.distance]_vars

\* C21's case: with dynamic distance off, a configured distance of 1.1 and
\* installed policies other than the defaults, two train cycles have run,
\* the last applying cleaners.
C21_Witness ==
    /\ ~dynamic_distance
    /\ cycle >= 2
    /\ config \in Configs
    /\ survivor_criteria = "TopN"
    /\ parental_criteria = "UniformRandom"
    /\ applied # << >>
    /\ ret # None

\* The number of members the claim gives a size: max(size, 0).
SizeOrZero == IF size > 0 THEN size ELSE 0

====
